---- MODULE Spec2Model ----
(***************************************************************************)
(* Model of ws_stream_wasm's two primitives:                               *)
(*   - future_event (src/src/callback_future.rs): a JavaScript callback    *)
(*     slot bridged to a future through an unbounded futures channel;      *)
(*   - the payload classifiers From<&JsMsgEvent> for JsMsgEvtData          *)
(*     (src/src/js_msg_event.rs) and From<MessageEvent> for WsMessage      *)
(*     (src/src/ws_message.rs).                                            *)
(* JavaScript and wasm run on one thread: a callback invocation and a poll *)
(* of the future each run to completion, so each is one action.            *)
(***************************************************************************)
EXTENDS Integers, Sequences, FiniteSets, TLC

\* ------------------------------------------------------------------ bounds
MaxInvocations == 3     \* how often the external source fires the callback
MaxLen == 2             \* longest ArrayBuffer delivered
MaxByte == 1            \* byte values are 0..MaxByte

Byte == 0..MaxByte
Texts == {"", "hello"}
Buffers == UNION {[1..n -> Byte] : n \in 0..MaxLen}

VARIABLES
    task,         \* the future returned by future_event
    chan,         \* the unbounded channel (onready, ready)
    queue,        \* number of messages queued in the channel
    on_ready,     \* TRUE while the Rust Closure on_ready is alive
    slot,         \* the external source's callback slot
    setterLog,    \* the arguments future_event has passed to setter
    invocations,  \* times the external source invoked the slot's function
    sends,        \* successful unbounded_send calls
    faults,       \* exceptions thrown inside a callback invocation
    resolutions,  \* times the awaiting task observed the future resolve
    data,         \* the MessageEvent's data as the host reports it
    msg           \* the last classification, or NoMsg

adapterVars == <<task, chan, queue, on_ready, slot, setterLog,
                 invocations, sends, faults, resolutions>>
classifierVars == <<data, msg>>
vars == <<task, chan, queue, on_ready, slot, setterLog,
          invocations, sends, faults, resolutions, data, msg>>

\* ------------------------------------------------- the channel operations
\* UnboundedSender::unbounded_send on a channel in state ch with q messages:
\* succeeds only while the channel is open.
unbounded_send(ch, q) ==
    IF ch = "open" THEN [ok |-> TRUE, chan |-> ch, queue |-> q + 1]
                   ELSE [ok |-> FALSE, chan |-> ch, queue |-> q]

\* UnboundedSender::close_channel: an existing channel becomes closed.
close_channel(ch) == IF ch = "open" THEN "closed" ELSE ch

\* Mutants of the notifier body.
NotifierSwallow(ch, q) ==
    LET s == unbounded_send(ch, q)
    IN  [chan |-> close_channel(s.chan), queue |-> s.queue,
         sent |-> IF s.ok THEN 1 ELSE 0, fault |-> 0]

NotifierCloseFirst(ch, q) ==
    LET c == close_channel(ch)
        s == unbounded_send(c, q)
    IN  [chan |-> c, queue |-> s.queue,
         sent |-> IF s.ok THEN 1 ELSE 0, fault |-> IF s.ok THEN 0 ELSE 1]

\* The body of the closure on_ready: send, expect_throw on failure (the
\* throw leaves the closure before close_channel), then close the channel.
Notifier(ch, q) ==
    LET s == unbounded_send(ch, q)
    IN  IF s.ok
        THEN [chan |-> close_channel(s.chan), queue |-> s.queue,
              sent |-> 1, fault |-> 0]
        ELSE [chan |-> s.chan, queue |-> s.queue, sent |-> 0, fault |-> 1]

ReadyAlways(ch, q) == TRUE

\* ready.into_future() is ready when the stream has an item or has ended.
ReceiverReady(ch, q) == q > 0 \/ ch = "closed"

\* --------------------------------------------------------- future_event
\* First poll: create the channel and the closure, call setter(Some(..)),
\* and suspend on the receiver.
Start ==
    /\ task = "created"
    /\ task' = "awaiting"
    /\ chan' = "open"
    /\ queue' = 0
    /\ on_ready' = TRUE
    /\ slot' = "on_ready"
    /\ setterLog' = Append(setterLog, "Some")
    /\ UNCHANGED <<invocations, sends, faults, resolutions, data, msg>>

\* The external source invokes the function in its slot.  A live closure
\* runs the notifier; a closure whose Rust side was dropped throws in the
\* binding glue.
Fire ==
    /\ slot = "on_ready"
    /\ invocations < MaxInvocations
    /\ invocations' = invocations + 1
    /\ IF on_ready
       THEN LET r == Notifier(chan, queue)
            IN  /\ chan' = r.chan
                /\ queue' = r.queue
                /\ sends' = sends + r.sent
                /\ faults' = faults + r.fault
       ELSE /\ faults' = faults + 1
            /\ UNCHANGED <<chan, queue, sends>>
    /\ UNCHANGED <<task, on_ready, slot, setterLog, resolutions, data, msg>>

ResumeAgain ==
    /\ task \in {"awaiting", "resolved"}
    /\ chan \in {"open", "closed"}
    /\ ReceiverReady(chan, queue)
    /\ task' = "resolved"
    /\ resolutions' = resolutions + 1
    /\ queue' = IF queue > 0 THEN queue - 1 ELSE 0
    /\ UNCHANGED <<chan, on_ready, slot, setterLog, invocations, sends,
                   faults, data, msg>>

\* The poll that finds the receiver ready: the await completes and
\* future_event returns, dropping ready and on_ready (and with it onready).
Resume ==
    /\ task = "awaiting"
    /\ ReceiverReady(chan, queue)
    /\ task' = "resolved"
    /\ resolutions' = resolutions + 1
    /\ chan' = "freed"
    /\ queue' = 0
    /\ on_ready' = FALSE
    /\ UNCHANGED <<slot, setterLog, invocations, sends, faults, data, msg>>

DropDeregisters ==
    /\ task \in {"created", "awaiting"}
    /\ task' = "dropped"
    /\ chan' = IF task = "awaiting" THEN "freed" ELSE chan
    /\ queue' = 0
    /\ on_ready' = FALSE
    /\ slot' = "empty"
    /\ setterLog' = Append(setterLog, "None")
    /\ UNCHANGED <<invocations, sends, faults, resolutions, data, msg>>

\* The caller drops the future before it resolved.  A suspended future
\* owns ready and on_ready and drops both; nothing calls setter again.
Drop ==
    /\ task \in {"created", "awaiting"}
    /\ task' = "dropped"
    /\ chan' = IF task = "awaiting" THEN "freed" ELSE chan
    /\ queue' = 0
    /\ on_ready' = FALSE
    /\ UNCHANGED <<slot, setterLog, invocations, sends, faults, resolutions,
                   data, msg>>

\* --------------------------------------------------- payload classifiers
NoMsg == [by |-> "none", at |-> <<>>,
          out |-> [kind |-> "none", bytes |-> <<>>, text |-> "",
                   panic |-> "", log |-> ""]]

Binary(v, l) == [kind |-> "Binary", bytes |-> v, text |-> "",
                 panic |-> "", log |-> l]
Text(t) == [kind |-> "Text", bytes |-> <<>>, text |-> t,
            panic |-> "", log |-> ""]
Panic(m, l) == [kind |-> "Panic", bytes |-> <<>>, text |-> "",
                panic |-> m, log |-> l]

\* The values evt.data() can be: what each introspection answers, the bytes
\* a Uint8Array over it sees, and the string as_string() yields.
Payloads ==
    {[isArrayBuffer |-> ab, isString |-> st, isBlob |-> bl,
      bytes |-> b, text |-> t] :
        ab \in BOOLEAN, st \in BOOLEAN, bl \in BOOLEAN,
        b \in Buffers, t \in Texts}

RawPayloads ==
    {p \in Payloads : /\ (~p.isArrayBuffer => p.bytes = <<>>)
                      /\ (~p.isString => p.text = "")}

copy_to_zeros(buffy) == [i \in 1..Len(buffy) |-> 0]

\* vec![0; buffy.length()] followed by buffy.copy_to(&mut v).
copy_to(buffy) ==
    LET v == [i \in 1..Len(buffy) |-> 0]
    IN  [i \in 1..Len(v) |-> buffy[i]]

JsMsgEvtData_from_string_first(d) ==
    IF d.isString THEN Text(d.text)
    ELSE IF d.isArrayBuffer
        THEN Binary(copy_to(d.bytes), "JsWebSocket received binary message")
    ELSE IF d.isBlob
        THEN Panic("unimplemented",
                   "JsWebSocket received a blob...unimplemented!")
    ELSE Panic("unreachable",
               "JsWebSocket received data that is not string, nor binary, nor blob, bailing...")

\* impl From<&JsMsgEvent> for JsMsgEvtData
JsMsgEvtData_from(d) ==
    IF d.isArrayBuffer
        THEN Binary(copy_to(d.bytes), "JsWebSocket received binary message")
    ELSE IF d.isString THEN Text(d.text)
    ELSE IF d.isBlob
        THEN Panic("unimplemented",
                   "JsWebSocket received a blob...unimplemented!")
    ELSE Panic("unreachable",
               "JsWebSocket received data that is not string, nor binary, nor blob, bailing...")

\* impl From<MessageEvent> for WsMessage
WsMessage_from(d) ==
    IF d.isArrayBuffer
        THEN Binary(copy_to(d.bytes), "JsWebSocket received binary message")
    ELSE IF d.isString THEN Text(d.text)
    ELSE IF d.isBlob
        THEN Panic("unreachable",
                   "JsWebSocket received a blob...unimplemented!")
    ELSE Panic("unreachable",
               "JsWebSocket received data that is not string, nor ArrayBuffer, nor Blob, bailing...")

\* The external source produces a message event carrying payload p.
Deliver ==
    /\ \E p \in RawPayloads : data' = p
    /\ msg' = NoMsg
    /\ UNCHANGED adapterVars

\* JsMsgEvent::data(): classify the wrapped event's data.
ClassifyJs ==
    /\ msg' = [by |-> "JsMsgEvtData", at |-> data.bytes,
               out |-> JsMsgEvtData_from(data)]
    /\ UNCHANGED <<data>>
    /\ UNCHANGED adapterVars

\* WsMessage::from(evt)
ClassifyWs ==
    /\ msg' = [by |-> "WsMessage", at |-> data.bytes,
               out |-> WsMessage_from(data)]
    /\ UNCHANGED <<data>>
    /\ UNCHANGED adapterVars

\* The owner of the ArrayBuffer writes byte b at index i.
Mutate ==
    /\ data.isArrayBuffer
    /\ \E i \in 1..Len(data.bytes), b \in Byte :
          /\ b # data.bytes[i]
          /\ data' = [data EXCEPT !.bytes[i] = b]
    /\ UNCHANGED <<msg>>
    /\ UNCHANGED adapterVars

\* ------------------------------------------------------- specification
Init ==
    /\ task = "created"
    /\ chan = "none"
    /\ queue = 0
    /\ on_ready = FALSE
    /\ slot = "empty"
    /\ setterLog = <<>>
    /\ invocations = 0
    /\ sends = 0
    /\ faults = 0
    /\ resolutions = 0
    /\ data \in RawPayloads
    /\ msg = NoMsg

Next ==
    \/ Start
    \/ Fire
    \/ Resume
    \/ Drop
    \/ Deliver
    \/ ClassifyJs
    \/ ClassifyWs
    \/ Mutate

Spec == Init /\ [][Next]_vars

\* The executor polls a woken task: a ready receiver is eventually polled.
FairSpec == Spec /\ WF_vars(Resume)

\* ----------------------------------------------------------- the claims
IsBlobShaped(d) == ~d.isArrayBuffer /\ ~d.isString /\ d.isBlob
IsOtherShaped(d) == ~d.isArrayBuffer /\ ~d.isString /\ ~d.isBlob

\* C1: however often the external source invokes the notifier, the awaiting
\* task is resolved at most once, and once the notifier has been invoked a
\* task still awaiting is resumed (or has been dropped by its owner).
C1_SingleResolution ==
    /\ [](resolutions <= 1)
    /\ [][resolutions >= 1 => resolutions' = resolutions]_vars
    /\ ((invocations >= 1 /\ task = "awaiting")
            ~> (resolutions = 1 \/ task = "dropped"))

C1_Witness == invocations >= 2 /\ resolutions = 1 /\ task = "resolved"

\* C2 (as claimed): a second invocation of the notifier is an inert no-op:
\* it sends no further signal and raises no fault in the callback.
C2_SecondInvocationInert ==
    invocations >= 2 => (sends <= 1 /\ faults = 0)

C4_NoPrematureResolution ==
    (task = "resolved" \/ resolutions >= 1) => (invocations >= 1 /\ sends >= 1)

C4_Witness == task = "resolved" /\ invocations = 1

\* C5 (as claimed): once future_event has resolved and returned, the
\* external source's slot no longer holds the adapter's notifier.
C5_NoLeakedRegistration ==
    task = "resolved" => slot # "on_ready"

\* C6: the classification is decided by the first matching shape in the
\* order binary buffer, string, blob, other, for both classifiers.
C6_PriorityOrder ==
    msg.by # "none" =>
        /\ data.isArrayBuffer =>
              /\ msg.out.kind = "Binary"
              /\ msg.out.bytes = msg.at
        /\ (msg.out.kind = "Text") <=> (data.isString /\ ~data.isArrayBuffer)
        /\ msg.out.kind = "Text" => msg.out.text = data.text
        /\ IsBlobShaped(data) =>
              /\ msg.out.kind = "Panic"
              /\ msg.out.log = "JsWebSocket received a blob...unimplemented!"
        /\ IsOtherShaped(data) =>
              /\ msg.out.kind = "Panic"
              /\ msg.out.log # "JsWebSocket received a blob...unimplemented!"

C6_Witness ==
    /\ msg.by # "none"
    /\ data.isArrayBuffer /\ data.isString
    /\ msg.out.kind = "Binary"
    /\ Len(msg.out.bytes) = MaxLen

\* C7 (as claimed): a blob-shaped payload yields an explicit, recoverable
\* UnsupportedPayloadShape outcome and any other unknown payload yields an
\* explicit UnrecognizedPayloadShape outcome, in both classifiers.
C7_ExplicitOutcomes ==
    msg.by # "none" =>
        /\ IsBlobShaped(data) => msg.out.kind = "UnsupportedPayloadShape"
        /\ IsOtherShaped(data) => msg.out.kind = "UnrecognizedPayloadShape"

\* C8: a Binary result holds the buffer's bytes as they were when it was
\* classified, whatever is written to the buffer afterwards.
C8_BinaryIsCopy ==
    (msg.by # "none" /\ data.isArrayBuffer) =>
        /\ msg.out.kind = "Binary"
        /\ Len(msg.out.bytes) = Len(msg.at)
        /\ \A i \in 1..Len(msg.at) : msg.out.bytes[i] = msg.at[i]

C8_Witness ==
    /\ msg.out.kind = "Binary"
    /\ Len(msg.at) = MaxLen
    /\ \A i \in 1..Len(msg.at) : data.bytes[i] # msg.at[i]
    /\ msg.out.bytes # data.bytes

\* C9: the notifier sends before it closes: a closed channel has had a
\* signal sent on it, and the task resumes only from a closed channel.
C9_SendThenClose ==
    /\ [](chan = "closed" => sends >= 1)
    /\ [][(task = "awaiting" /\ task' = "resolved")
             => (chan = "closed" /\ sends >= 1)]_vars

C9_Witness == chan = "closed" /\ sends = 1 /\ queue = 1 /\ task = "awaiting"

\* C10: dropping the unresolved future does not call the registration
\* function again and leaves the slot as it is; an invocation after the drop
\* resolves nothing and faults in the callback.
C10_OrphanedRegistration ==
    [][/\ (task # "dropped" /\ task' = "dropped")
            => (slot' = slot /\ setterLog' = setterLog)
       /\ (task = "dropped" /\ invocations' = invocations + 1)
            => /\ faults' = faults + 1
               /\ resolutions' = resolutions
               /\ task' = task
               /\ sends' = sends]_vars

C10_Witness ==
    /\ task = "dropped"
    /\ slot = "on_ready"
    /\ sends = 0
    /\ invocations >= 1
    /\ faults = invocations
    /\ resolutions = 0

====
